---- MODULE Spec2Model ----
(***************************************************************************)
(* Model of EnginePruneController (crates/consensus/beacon/src/engine/     *)
(* prune.rs): the engine thread drives poll(), a spawned blocking task     *)
(* runs the pruner and answers on a tokio oneshot channel.                 *)
(*                                                                         *)
(* The engine thread's position inside poll() is kept in pc, so that the   *)
(* worker task can interleave with the body of poll().                     *)
(* The oneshot channel is modelled by its documented behaviour: a receiver *)
(* poll is Pending while the sender is alive and has sent nothing, Ok once *)
(* a value was sent, Err once the sender was dropped without a value (and  *)
(* Err again on every later poll of the same closed receiver).             *)
(***************************************************************************)
EXTENDS Integers, FiniteSets, Sequences, TLC

\* ---- bounds ----
MaxRuns == 2      \* check_tip yields a tip at most this many times
MaxPolls == 6     \* the engine calls poll at most this many times
MaxTip == 1       \* tips are drawn from 0..MaxTip

RunIds == 1..MaxRuns
Tips == 0..MaxTip
NoTip == -1       \* Option::None of check_tip
Results == {"Ok", "Err"}     \* Result<(), PrunerError>

VARIABLES
    pruner_state,   \* EnginePruneController.pruner_state
    pc,             \* engine thread: "out", "try_spawn", "check_tip", "loop", "ret"
    ret,            \* value poll() is about to return
    localPruner,    \* the local `pruner` of try_spawn_pruner holds the Pruner
    chan,           \* chan[r]: oneshot channel of run r
    chanRes,        \* chanRes[r]: result carried by the value sent on chan[r]
    worker,         \* worker[r]: spawned task of run r
    workerTip,      \* workerTip[r]: tip given to run_as_fut
    wakerSet,       \* wakerSet[r]: rx waker registered on chan[r]
    woken,          \* the engine task was woken since its last poll
    runs,           \* number of tasks spawned so far
    polls,          \* number of poll calls entered so far
    lastEvent,      \* what the last completed poll returned
    entryState,     \* pruner_state at entry of the current/last poll
    entryChan,      \* state of the receiver's channel at entry of that poll
    seenChan,       \* what fut.poll_unpin saw in that poll ("none" if not polled)
    tipSeen,        \* what check_tip returned in that poll (NoTip if None/not called)
    checkTipCalls,  \* calls of check_tip in that poll
    spawnCalls,     \* calls of spawn_critical_blocking in that poll
    loopIters,      \* iterations of the loop of poll in that poll
    startedCnt,     \* startedCnt[r]: polls that returned Started for run r
    finishedCnt,    \* finishedCnt[r]: polls that returned Finished for run r
    droppedCnt,     \* droppedCnt[r]: polls that returned TaskDropped for run r
    restoredCnt     \* restoredCnt[r]: times the pruner of run r was put back in Idle

vars == <<pruner_state, pc, ret, localPruner, chan, chanRes, worker, workerTip,
          wakerSet, woken, runs, polls, lastEvent, entryState, entryChan,
          seenChan, tipSeen, checkTipCalls, spawnCalls, loopIters,
          startedCnt, finishedCnt, droppedCnt, restoredCnt>>

\* ---- PrunerState ----
Idle(p) == [tag |-> "Idle", pruner |-> p, rx |-> 0]
Running(r) == [tag |-> "Running", pruner |-> FALSE, rx |-> r]

is_idle(s) == s.tag = "Idle"

is_pruner_idle == is_idle(pruner_state)

\* ---- EnginePruneEvent, and Poll::Pending ----
Ev(t, tip, res, r) == [type |-> t, tip |-> tip, result |-> res, run |-> r]
NoEvent == Ev("None", NoTip, "NA", 0)
PendingEv == Ev("Pending", NoTip, "NA", 0)
NotReady == Ev("NotReady", NoTip, "NA", 0)
Started(tip, r) == Ev("Started", tip, "NA", r)
Finished(res, r) == Ev("Finished", NoTip, res, r)
TaskDropped(r) == Ev("TaskDropped", NoTip, "NA", r)

\* ---- oneshot::Receiver::poll ----
RecvPoll_MissesClose(c) ==
    CASE c = "open" -> "Pending"
      [] c = "sent" -> "Ok"
      [] c = "closed" -> "Pending"
      [] OTHER -> "Panic"

RecvPoll_Eager(c) ==
    CASE c = "open" -> "Ok"
      [] c = "sent" -> "Ok"
      [] c = "closed" -> "Err"
      [] OTHER -> "Panic"

RecvPoll(c) ==
    CASE c = "open" -> "Pending"
      [] c = "sent" -> "Ok"
      [] c = "closed" -> "Err"
      [] OTHER -> "Panic"

\* ---- try_spawn_pruner ----
\* The Idle arm is taken and `pruner.take()?` yields the pruner.
CanStart_Always(s) == TRUE

CanStart(s) == is_idle(s) /\ s.pruner

TakeSlot(s) == [s EXCEPT !.pruner = FALSE]

\* The tip moved into the spawned task for run_as_fut.
TaskTip_Genesis(tip) == 0

TaskTip(tip) == tip

AfterSpawn_StillIdle(r) == Idle(FALSE)

AfterSpawn(r) == Running(r)

AfterNotReady_Empty == Idle(FALSE)

AfterNotReady == Idle(TRUE)

\* ---- poll_pruner ----
\* fut.poll_unpin(cx) on an open channel stores the waker of cx in it.
RegisterWaker_Forget(w, r) == w

RegisterWaker(w, r) == [w EXCEPT ![r] = TRUE]

AfterRecvOk_StillRunning(s) == s

AfterRecvOk(s) == Idle(TRUE)

AfterRecvErr_Empty(s) == Idle(FALSE)

AfterRecvErr_Recover(s) == Idle(TRUE)

AfterRecvErr(s) == s

\* ---- poll: the exit test of the loop ----
LoopExits(s) == ~is_idle(s)

Init ==
    /\ pruner_state = Idle(TRUE)
    /\ pc = "out"
    /\ ret = NoEvent
    /\ localPruner = FALSE
    /\ chan = [r \in RunIds |-> "none"]
    /\ chanRes = [r \in RunIds |-> "NA"]
    /\ worker = [r \in RunIds |-> "none"]
    /\ workerTip = [r \in RunIds |-> NoTip]
    /\ wakerSet = [r \in RunIds |-> FALSE]
    /\ woken = FALSE
    /\ runs = 0
    /\ polls = 0
    /\ lastEvent = NoEvent
    /\ entryState = Idle(TRUE)
    /\ entryChan = "none"
    /\ seenChan = "none"
    /\ tipSeen = NoTip
    /\ checkTipCalls = 0
    /\ spawnCalls = 0
    /\ loopIters = 0
    /\ startedCnt = [r \in RunIds |-> 0]
    /\ finishedCnt = [r \in RunIds |-> 0]
    /\ droppedCnt = [r \in RunIds |-> 0]
    /\ restoredCnt = [r \in RunIds |-> 0]

chanVars == <<chan, chanRes, worker, workerTip>>
cntVars == <<startedCnt, finishedCnt, droppedCnt>>
callVars == <<entryState, entryChan, seenChan, tipSeen, checkTipCalls, spawnCalls, loopIters>>

\* The engine calls poll(cx).
PollEnter ==
    /\ pc = "out"
    /\ polls < MaxPolls
    /\ pc' = "try_spawn"
    /\ polls' = polls + 1
    /\ woken' = FALSE
    /\ entryState' = pruner_state
    /\ entryChan' = IF pruner_state.tag = "Running" THEN chan[pruner_state.rx] ELSE "none"
    /\ seenChan' = "none"
    /\ tipSeen' = NoTip
    /\ checkTipCalls' = 0
    /\ spawnCalls' = 0
    /\ loopIters' = 0
    /\ UNCHANGED <<pruner_state, ret, localPruner, chanVars, wakerSet, runs,
                   lastEvent, cntVars, restoredCnt>>

\* try_spawn_pruner: the match on the state and `pruner.take()?`.
TrySpawnMatch ==
    /\ pc = "try_spawn"
    /\ IF CanStart(pruner_state)
         THEN /\ localPruner' = TRUE
              /\ pruner_state' = TakeSlot(pruner_state)
              /\ pc' = "check_tip"
         ELSE /\ pc' = "loop"
              /\ UNCHANGED <<localPruner, pruner_state>>
    /\ UNCHANGED <<ret, chanVars, wakerSet, woken, runs, polls, lastEvent,
                   callVars, cntVars, restoredCnt>>

\* try_spawn_pruner: check_tip returned Some(tip): spawn the task.
CheckTipReady(tip) ==
    /\ pc = "check_tip"
    /\ runs < MaxRuns
    /\ LET r == runs + 1 IN
        /\ runs' = r
        /\ chan' = [chan EXCEPT ![r] = "open"]
        /\ worker' = [worker EXCEPT ![r] = "running"]
        /\ workerTip' = [workerTip EXCEPT ![r] = TaskTip(tip)]
        /\ pruner_state' = AfterSpawn(r)
        /\ ret' = Started(tip, r)
    /\ localPruner' = FALSE
    /\ tipSeen' = tip
    /\ checkTipCalls' = checkTipCalls + 1
    /\ spawnCalls' = spawnCalls + 1
    /\ pc' = "ret"
    /\ UNCHANGED <<chanRes, wakerSet, woken, polls, lastEvent, entryState,
                   entryChan, seenChan, loopIters, cntVars, restoredCnt>>

\* try_spawn_pruner: check_tip returned None: the pruner goes back.
CheckTipNotReady ==
    /\ pc = "check_tip"
    /\ pruner_state' = AfterNotReady
    /\ localPruner' = FALSE
    /\ ret' = NotReady
    /\ checkTipCalls' = checkTipCalls + 1
    /\ pc' = "ret"
    /\ UNCHANGED <<chanVars, wakerSet, woken, runs, polls, lastEvent, entryState,
                   entryChan, seenChan, tipSeen, spawnCalls, loopIters, cntVars,
                   restoredCnt>>

\* One iteration of the loop of poll: poll_pruner, then the exit test.
PollPruner ==
    /\ pc = "loop"
    /\ loopIters' = IF loopIters < 2 THEN loopIters + 1 ELSE loopIters
    /\ IF is_idle(pruner_state)
         THEN \* poll_pruner returns Pending; the loop goes on only if idle
              /\ IF LoopExits(pruner_state)
                   THEN ret' = PendingEv /\ pc' = "ret"
                   ELSE UNCHANGED <<ret, pc>>
              /\ UNCHANGED <<pruner_state, chan, wakerSet, seenChan, restoredCnt>>
         ELSE LET r == pruner_state.rx
                  p == RecvPoll(chan[r])
              IN /\ seenChan' = chan[r]
                 /\ CASE p = "Pending" ->
                           /\ wakerSet' = RegisterWaker(wakerSet, r)
                           /\ IF LoopExits(pruner_state)
                                THEN ret' = PendingEv /\ pc' = "ret"
                                ELSE UNCHANGED <<ret, pc>>
                           /\ UNCHANGED <<pruner_state, chan, restoredCnt>>
                      [] p = "Ok" ->
                           /\ chan' = [chan EXCEPT ![r] = "taken"]
                           /\ pruner_state' = AfterRecvOk(pruner_state)
                           /\ restoredCnt' = IF pruner_state' = Idle(TRUE)
                                               THEN [restoredCnt EXCEPT ![r] = @ + 1]
                                               ELSE restoredCnt
                           /\ ret' = Finished(chanRes[r], r)
                           /\ pc' = "ret"
                           /\ UNCHANGED wakerSet
                      [] p = "Err" ->
                           /\ pruner_state' = AfterRecvErr(pruner_state)
                           /\ ret' = TaskDropped(r)
                           /\ pc' = "ret"
                           /\ UNCHANGED <<chan, wakerSet, restoredCnt>>
                      [] OTHER ->
                           \* "called after complete": the engine thread panics
                           /\ pc' = "panicked"
                           /\ UNCHANGED <<pruner_state, chan, wakerSet, ret, restoredCnt>>
    /\ UNCHANGED <<localPruner, chanRes, worker, workerTip, woken, runs, polls,
                   lastEvent, entryState, entryChan, tipSeen, checkTipCalls,
                   spawnCalls, cntVars>>

\* The event counters stop at MaxPolls, which no run of at most MaxPolls polls reaches.
Bump(f, r) == [f EXCEPT ![r] = IF @ < MaxPolls THEN @ + 1 ELSE @]

\* poll returns `ret` to the engine.
PollReturn ==
    /\ pc = "ret"
    /\ pc' = "out"
    /\ lastEvent' = ret
    /\ ret' = NoEvent
    /\ startedCnt' = IF ret.type = "Started" THEN Bump(startedCnt, ret.run) ELSE startedCnt
    /\ finishedCnt' = IF ret.type = "Finished" THEN Bump(finishedCnt, ret.run) ELSE finishedCnt
    /\ droppedCnt' = IF ret.type = "TaskDropped" THEN Bump(droppedCnt, ret.run) ELSE droppedCnt
    /\ UNCHANGED <<pruner_state, localPruner, chanVars, wakerSet, woken, runs,
                   polls, callVars, restoredCnt>>

\* The spawned task: run_as_fut finished, tx.send((pruner, result)).
WorkerSend(r, res) ==
    /\ worker[r] = "running"
    /\ worker' = [worker EXCEPT ![r] = "sent"]
    /\ chan' = [chan EXCEPT ![r] = "sent"]
    /\ chanRes' = [chanRes EXCEPT ![r] = res]
    /\ woken' = (woken \/ wakerSet[r])
    /\ UNCHANGED <<pruner_state, pc, ret, localPruner, workerTip, wakerSet, runs,
                   polls, lastEvent, callVars, cntVars, restoredCnt>>

\* The spawned task ends without sending (panic or never run): tx is dropped.
WorkerDrop(r) ==
    /\ worker[r] = "running"
    /\ worker' = [worker EXCEPT ![r] = "dropped"]
    /\ chan' = [chan EXCEPT ![r] = "closed"]
    /\ woken' = (woken \/ wakerSet[r])
    /\ UNCHANGED <<pruner_state, pc, ret, localPruner, chanRes, workerTip, wakerSet,
                   runs, polls, lastEvent, callVars, cntVars, restoredCnt>>

Next ==
    \/ PollEnter
    \/ TrySpawnMatch
    \/ \E tip \in Tips : CheckTipReady(tip)
    \/ CheckTipNotReady
    \/ PollPruner
    \/ PollReturn
    \/ \E r \in RunIds, res \in Results : WorkerSend(r, res)
    \/ \E r \in RunIds : WorkerDrop(r)

Spec == Init /\ [][Next]_vars

\* The engine calls poll(cx) once more after MaxPolls calls (the count stays).
PollEnterMore ==
    /\ pc = "out"
    /\ polls = MaxPolls
    /\ pc' = "try_spawn"
    /\ woken' = FALSE
    /\ entryState' = pruner_state
    /\ entryChan' = IF pruner_state.tag = "Running" THEN chan[pruner_state.rx] ELSE "none"
    /\ seenChan' = "none"
    /\ tipSeen' = NoTip
    /\ checkTipCalls' = 0
    /\ spawnCalls' = 0
    /\ loopIters' = 0
    /\ UNCHANGED <<pruner_state, ret, localPruner, chanVars, wakerSet, runs, polls,
                   lastEvent, cntVars, restoredCnt>>

\* The steps of poll after its entry.
PollBody ==
    \/ TrySpawnMatch
    \/ \E tip \in Tips : CheckTipReady(tip)
    \/ CheckTipNotReady
    \/ PollPruner
    \/ PollReturn

\* The spawned task ends: it sends its answer or drops the sender.
WorkerEnds ==
    \/ \E r \in RunIds, res \in Results : WorkerSend(r, res)
    \/ \E r \in RunIds : WorkerDrop(r)

\* An engine that polls again and again, and tasks that end.
EngineStep == PollEnter \/ PollEnterMore \/ PollBody

FairNext == EngineStep \/ WorkerEnds

FairSpec == Init /\ [][FairNext]_vars /\ WF_vars(EngineStep) /\ WF_vars(WorkerEnds)

\* A driver that polls again after Ready, and after Pending only once the
\* waker handed to poll was invoked.
EngineMayPoll == lastEvent.type # "Pending" \/ woken

WokenEngineStep == (EngineMayPoll /\ (PollEnter \/ PollEnterMore)) \/ PollBody

WokenNext == WokenEngineStep \/ WorkerEnds

WokenSpec == Init /\ [][WokenNext]_vars /\ WF_vars(WokenEngineStep)

\* ---- where the pruner is ----
InSlot == pruner_state.tag = "Idle" /\ pruner_state.pruner
InTask == \E r \in RunIds : worker[r] = "running" \/ chan[r] = "sent"
TaskLost == \E r \in RunIds : worker[r] = "dropped"
PrunerCount ==
    (IF InSlot THEN 1 ELSE 0) + (IF localPruner THEN 1 ELSE 0)
    + Cardinality({r \in RunIds : worker[r] = "running"})
    + Cardinality({r \in RunIds : chan[r] = "sent"})

\* The engine is between two poll calls and the last poll has returned.
Returned == pc = "out" /\ polls > 0

\* C1: from the return of Started for run r until the poll that emits
\* Finished for r returns, is_pruner_idle() is false in every state (also
\* inside intermediate polls and after a TaskDropped); the only idle states
\* before that are those of the finishing poll itself, about to return.
C1_NotIdleWhileRunning ==
    \A r \in RunIds :
        (startedCnt[r] >= 1 /\ finishedCnt[r] = 0
            /\ ~(pc = "ret" /\ ret.type = "Finished" /\ ret.run = r))
        => ~is_pruner_idle

C1_Witness ==
    /\ pc = "out" /\ lastEvent.type = "Pending"
    /\ startedCnt[1] = 1 /\ finishedCnt[1] = 0 /\ polls >= 3
    /\ ~is_pruner_idle

C3_ExactlyOneOwner ==
    pc = "out" => ((InSlot /\ ~InTask) \/ (~InSlot /\ InTask))

\* C3 (amended): the pruner is never in two places; outside poll it is in
\* exactly one of the Idle slot and the spawned task, unless the task ended
\* without sending, and then it is in neither; Idle(None) occurs only inside
\* try_spawn_pruner, before check_tip's answer is handled.
C3_OwnerUnlessLost ==
    /\ PrunerCount <= 1
    /\ pc = "out" =>
         IF TaskLost THEN ~InSlot /\ ~InTask
         ELSE (InSlot /\ ~InTask) \/ (~InSlot /\ InTask)
    /\ pruner_state = Idle(FALSE) => pc = "check_tip"

C3_Witness ==
    /\ pc = "out" /\ TaskLost /\ PrunerCount = 0 /\ pruner_state.tag = "Running"

\* C4: once a poll has returned TaskDropped for run r, the state stays
\* Running(r), is_pruner_idle() stays false, no later poll returns Started,
\* NotReady or Finished, and no further task is spawned.
C4_DroppedIsTerminal ==
    \A r \in RunIds :
        droppedCnt[r] >= 1 =>
            /\ pruner_state = Running(r)
            /\ ~is_pruner_idle
            /\ lastEvent.type \notin {"Started", "NotReady", "Finished"}
            /\ ret.type \notin {"Started", "NotReady", "Finished"}
            /\ runs = r
            /\ spawnCalls = 0

C4_Witness ==
    /\ pc = "out" /\ droppedCnt[1] >= 3 /\ ~is_pruner_idle

\* C5 (as claimed): the failure of a run is reported by one poll only:
\* over all polls, Finished and TaskDropped are returned for a run at most
\* once in total.
C5_ReportedOnce ==
    \A r \in RunIds : finishedCnt[r] + droppedCnt[r] <= 1

\* C6: between polls, is_pruner_idle() is true after new(), after a poll
\* that returned NotReady and after a poll that returned Finished (Ok or
\* Err), and false after a poll that returned Started.
C6_IdleAfterEvent ==
    pc = "out" =>
        /\ lastEvent.type \in {"None", "NotReady", "Finished"} => is_pruner_idle
        /\ lastEvent.type = "Started" => ~is_pruner_idle

C6_Witness ==
    /\ pc = "out" /\ lastEvent.type = "Finished" /\ lastEvent.result = "Err"
    /\ is_pruner_idle

\* C7: a poll entered in Running(r) with the worker's answer in the channel
\* returns Finished with the result the worker sent and leaves Idle holding
\* the pruner; a poll in which check_tip yields a tip returns Started of
\* that tip, also after earlier runs.
C7_FinishedVerbatim ==
    Returned =>
        /\ (entryState.tag = "Running" /\ entryChan = "sent") =>
              /\ lastEvent = Finished(chanRes[entryState.rx], entryState.rx)
              /\ lastEvent.result \in Results
              /\ pruner_state = Idle(TRUE)
        /\ tipSeen # NoTip =>
              /\ lastEvent = Started(tipSeen, runs)
              /\ entryState = Idle(TRUE)

C7_Witness ==
    /\ pc = "out" /\ finishedCnt[1] = 1 /\ chanRes[1] = "Err"
    /\ lastEvent.type = "Started" /\ lastEvent.run = 2 /\ tipSeen = lastEvent.tip

\* C8: a poll returns Pending only if it was entered in Running, its poll
\* of the receiver found neither a value nor a close, and it left the state
\* as it was; a poll entered in Idle holding the pruner returns Started or
\* NotReady.
C8_PendingOnlyWhileRunning ==
    /\ (pc = "ret" /\ ret.type = "Pending") =>
          /\ entryState.tag = "Running"
          /\ seenChan = "open"
          /\ pruner_state = entryState
    /\ Returned =>
          /\ lastEvent.type = "Pending" =>
                /\ entryState.tag = "Running"
                /\ seenChan = "open"
                /\ pruner_state = entryState
          /\ entryState = Idle(TRUE) => lastEvent.type \in {"Started", "NotReady"}

C8_Witness ==
    /\ pc = "out" /\ lastEvent.type = "Pending" /\ seenChan = "open"
    /\ pruner_state.tag = "Running"

\* C9: as long as check_tip has answered None on every call (no task was
\* spawned, runs = 0), every poll has returned NotReady, none Started, and
\* the state is Idle holding the pruner after every poll.
C9_NeverReady ==
    runs = 0 =>
        /\ lastEvent.type \in {"None", "NotReady"}
        /\ \A r \in RunIds : worker[r] = "none" /\ startedCnt[r] = 0
        /\ Returned => lastEvent = NotReady
        /\ pc \in {"out", "ret"} => pruner_state = Idle(TRUE)
        /\ pc = "ret" => ret = NotReady

C9_Witness ==
    /\ runs = 0 /\ pc = "out" /\ polls >= 3 /\ lastEvent = NotReady
    /\ checkTipCalls = 1

\* C10: for every run at most one Finished is returned and the pruner is put
\* back at most once, exactly once when Finished is returned; Finished is
\* returned only after the worker of that run has sent; the runs with a
\* Finished or a TaskDropped are never more than the runs started.
C10_BackOnce ==
    /\ \A r \in RunIds :
         /\ finishedCnt[r] <= 1
         /\ restoredCnt[r] <= 1
         /\ finishedCnt[r] = 1 => (restoredCnt[r] = 1 /\ worker[r] = "sent")
         /\ (pc = "ret" /\ ret.type = "Finished" /\ ret.run = r) =>
               (restoredCnt[r] = 1 /\ worker[r] = "sent" /\ InSlot)
         /\ (pc = "out" /\ chan[r] = "taken") => finishedCnt[r] = 1
         /\ restoredCnt[r] = 1 => chan[r] = "taken"
    /\ Cardinality({r \in RunIds : finishedCnt[r] >= 1 \/ droppedCnt[r] >= 1})
         <= Cardinality({r \in RunIds : startedCnt[r] >= 1})

C10_Witness ==
    /\ pc = "out" /\ finishedCnt[1] = 1 /\ restoredCnt[1] = 1
    /\ finishedCnt[2] = 1 /\ restoredCnt[2] = 1 /\ InSlot

\* C11: in a poll where check_tip yields tip t (entered in Idle holding the
\* pruner), exactly one task is spawned, on a channel no earlier run used,
\* with tip t; the state is Running with that channel's receiver; the call
\* returns Started(t) without polling the receiver.
C11_StartSpawnsOnce ==
    (pc \in {"ret", "out"} /\ tipSeen # NoTip) =>
        /\ entryState = Idle(TRUE)
        /\ checkTipCalls = 1 /\ spawnCalls = 1
        /\ loopIters = 0 /\ seenChan = "none"
        /\ pruner_state = Running(runs)
        /\ workerTip[runs] = tipSeen
        /\ worker[runs] # "none" /\ chan[runs] \in {"open", "sent", "closed"}
        /\ (pc = "ret") => (ret = Started(tipSeen, runs) /\ startedCnt[runs] = 0)
        /\ (pc = "out") => (lastEvent = Started(tipSeen, runs) /\ startedCnt[runs] = 1)
        /\ \A r \in RunIds : r > runs => (chan[r] = "none" /\ worker[r] = "none")

C11_Witness ==
    /\ pc = "out" /\ lastEvent = Started(1, 2) /\ workerTip[2] = 1
    /\ workerTip[1] = 0 /\ chan[2] = "sent"

\* C12: a poll calls check_tip at most once and spawns at most once, and
\* does neither when entered in Running (so not in the poll that returns
\* Finished); at most one task is running at any time, and the controller
\* does not hold the pruner while a task has it.
C12_OneAttemptPerPoll ==
    /\ checkTipCalls <= 1 /\ spawnCalls <= 1
    /\ (pc # "out" /\ entryState.tag = "Running") => (checkTipCalls = 0 /\ spawnCalls = 0)
    /\ (Returned /\ entryState.tag = "Running") => (checkTipCalls = 0 /\ spawnCalls = 0)
    /\ (pc = "ret" /\ ret.type = "Finished") => (checkTipCalls = 0 /\ spawnCalls = 0)
    /\ (Returned /\ lastEvent.type = "Finished") =>
          (checkTipCalls = 0 /\ spawnCalls = 0 /\ worker[lastEvent.run] = "sent"
             /\ \A r \in RunIds : worker[r] # "running")
    /\ Cardinality({r \in RunIds : worker[r] = "running"}) <= 1
    /\ (\E r \in RunIds : worker[r] = "running") => (~localPruner /\ ~InSlot)
    /\ (\E r \in RunIds : worker[r] = "running") => (pruner_state = Running(runs) /\ worker[runs] = "running")

C12_Witness ==
    /\ pc = "out" /\ lastEvent.type = "Finished" /\ lastEvent.run = 1
    /\ checkTipCalls = 0 /\ spawnCalls = 0 /\ runs = 1 /\ polls = 2

\* C14: the loop of poll runs its body at most once per call and only in
\* Running: the state is never Idle(None) at entry of poll nor in the loop,
\* the receiver is never polled after its value was taken, and a poll that
\* got NotReady returns it without entering the loop.
C14_LoopRunsOnce ==
    /\ loopIters <= 1
    /\ pc # "panicked"
    /\ pc \in {"out", "try_spawn", "loop", "ret"} => pruner_state # Idle(FALSE)
    /\ pc = "loop" => (~is_idle(pruner_state) /\ loopIters = 0)
    /\ (pc = "ret" /\ ret = NotReady) => (loopIters = 0 /\ checkTipCalls = 1)
    /\ (Returned /\ lastEvent = NotReady) => (loopIters = 0 /\ checkTipCalls = 1)
    /\ (pc = "ret" /\ ret.type \in {"Pending", "Finished", "TaskDropped"}) => loopIters = 1

C14_Witness ==
    /\ pc = "out" /\ lastEvent.type = "Pending" /\ loopIters = 1
    /\ polls >= 4 /\ finishedCnt[1] = 1

\* C16: a poll that returns NotReady or Pending (or TaskDropped) leaves the
\* state as it was at entry and spawns nothing; the state differs from the
\* one at entry only as Idle(Some) -> Running on Started and as
\* Running -> Idle(Some) on Finished.
C16_Frame ==
    /\ (pc = "ret" /\ ret.type \in {"NotReady", "Pending", "TaskDropped"}) =>
          (pruner_state = entryState /\ spawnCalls = 0)
    /\ (Returned /\ lastEvent.type \in {"NotReady", "Pending", "TaskDropped"}) =>
          (pruner_state = entryState /\ spawnCalls = 0)
    /\ (pc = "ret" /\ ret.type = "NotReady") => entryState = Idle(TRUE)
    /\ (pc = "ret" /\ ret.type = "Pending") => entryState.tag = "Running"
    /\ (pc \in {"ret", "out"} /\ pruner_state # entryState) =>
          LET e == IF pc = "ret" THEN ret ELSE lastEvent IN
          \/ /\ e.type = "Started"
             /\ entryState = Idle(TRUE) /\ pruner_state = Running(e.run)
          \/ /\ e.type = "Finished"
             /\ entryState = Running(e.run) /\ pruner_state = Idle(TRUE)

C16_Witness ==
    /\ pc = "out" /\ lastEvent = NotReady /\ finishedCnt[1] = 1
    /\ pruner_state = entryState /\ pruner_state = Idle(TRUE)

\* C13: a poll that returned Pending has stored the caller's waker in the
\* channel of the running task, so once that task has sent or dropped its
\* sender the parked caller is woken; with a driver that polls after Pending
\* only when woken, every run whose task has ended gets its Finished or
\* TaskDropped returned.
C13_WakerArmed ==
    (pc = "out" /\ lastEvent.type = "Pending") =>
        /\ pruner_state.tag = "Running"
        /\ wakerSet[pruner_state.rx]
        /\ worker[pruner_state.rx] # "running" => woken

C13_NoLostWakeup ==
    /\ []C13_WakerArmed
    /\ \A r \in RunIds :
         (worker[r] \in {"sent", "dropped"}) ~> (finishedCnt[r] + droppedCnt[r] >= 1)

C13_Witness ==
    /\ pc = "out" /\ lastEvent.type = "Pending" /\ pruner_state = Running(1)
    /\ wakerSet[1] /\ worker[1] = "sent" /\ woken

\* C15: with an engine that keeps polling and tasks that end, every run
\* whose Started was returned gets its Finished or TaskDropped returned; the
\* state leaves Running(r) only with Finished of r on the value sent by the
\* task of r, and a task ends only by its own step, never by a step of poll.
C15_RunsEnd ==
    /\ \A r \in RunIds :
         (startedCnt[r] >= 1) ~> (finishedCnt[r] + droppedCnt[r] >= 1)
    /\ [][\A r \in RunIds :
            /\ (pruner_state = Running(r) /\ pruner_state' # Running(r)) =>
                  /\ chan[r] = "sent" /\ worker[r] = "sent"
                  /\ ret' = Finished(chanRes[r], r)
                  /\ pruner_state' = Idle(TRUE)
            /\ (worker[r] = "running" /\ worker'[r] # "running") =>
                  (pc' = pc /\ pruner_state' = pruner_state)]_vars

C15_Witness ==
    /\ pc = "out" /\ finishedCnt[1] = 1 /\ droppedCnt[2] >= 1
    /\ startedCnt[1] = 1 /\ startedCnt[2] = 1

TypeOK ==
    /\ pruner_state \in {Idle(TRUE), Idle(FALSE)} \cup {Running(r) : r \in RunIds}
    /\ pc \in {"out", "try_spawn", "check_tip", "loop", "ret", "panicked"}
    /\ runs \in 0..MaxRuns
    /\ polls \in 0..MaxPolls
====
